---- MODULE Spec2Model ----
(***************************************************************************)
(* Batch renamer: the three variants of rename_images (mapping iteration,  *)
(* directory listing with console output, directory listing with a log     *)
(* file), each as a state machine over one directory.                      *)
(*                                                                         *)
(* File names are strings.  The module's strings are ASCII, so the Korean  *)
(* source names of the mapping are written romanised; the romanisation     *)
(* keeps the names distinct, keeps them disjoint from the destination      *)
(* names, and keeps the one substring relation among the keys (the 7th key *)
(* is a suffix of the 10th).                                               *)
(***************************************************************************)
EXTENDS Integers, Sequences, FiniteSets, TLC

VARIABLES
    variant,    \* which program runs: "v1", "v2", "v3"
    dirState,   \* base directory: "ok", "missing", "unreadable" (listing denied, entries reachable by path)
    failing,    \* the source names whose os.rename call raises (permission, destination exists on Windows, ...)
    dir0,       \* directory content before the pass: name -> contents
    dir,        \* directory content now
    pc,         \* position of the program
    files,      \* v2/v3: the listing taken by os.listdir
    idx,        \* position of the for loop (1-based)
    out,        \* lines printed to standard output
    log,        \* v3: lines written to rename_log.txt
    calls,      \* os.rename calls made in this pass, in order: <<old, new>>
    exitCode,   \* process exit status once pc = "exited"; -1 before
    run,        \* 1: first pass; 2: the pass started by the harness after the first
    prev        \* what the first pass left, once the harness has started a second

vars == <<variant, dirState, failing, dir0, dir, pc, files, idx, out, log, calls, exitCode, run, prev>>

-----------------------------------------------------------------------------
(* Bounds of the model *)

\* files that may be present initially come from NCand mapping entries
NCand == 2
\* at most this many files in the initial directory
MaxFiles == 3

-----------------------------------------------------------------------------
(* The program's constants *)

\* the dict literal, in insertion order (dicts iterate in insertion order)
mappingLiteral ==
    << <<"geonhui.png",              "member-geonhee.png">>,
       <<"gyeongjun.jpeg",           "member-kyungjun.jpeg">>,
       <<"goyangi.jpg",              "cat-mascot.jpg">>,
       <<"aelbeom sogae 2.png",      "album-intro-2.png">>,
       <<"aelbeom sogae 3.png",      "album-intro-3.png">>,
       <<"aelbeom pyoji 1.png",      "album-cover-1.png">>,
       <<"yuntae.png",               "member-yuntae.png">>,
       <<"jinho.png",                "member-jinho.png">>,
       <<"chanhui.png",              "member-chanhee.png">>,
       <<"hyeonsanggeum yuntae.png", "wanted-yuntae.png">> >>

\* a table that lost its last entry
mapping_Missing == SubSeq(mappingLiteral, 1, Len(mappingLiteral) - 1)

\* a table in which the entry after the cat entry has the cat entry's destination
mapping_DupDest ==
    [i \in 1..Len(mappingLiteral) |->
        IF i > 1 /\ mappingLiteral[i - 1][1] = "goyangi.jpg"
        THEN <<mappingLiteral[i][1], mappingLiteral[i - 1][2]>>
        ELSE mappingLiteral[i]]

\* the module-level name the loops read
mapping == mappingLiteral

\* mapping.keys()
Keys == {mapping[i][1] : i \in 1..Len(mapping)}

\* mapping.values()
Dests == {mapping[i][2] : i \in 1..Len(mapping)}

\* a lookup that is off by one entry
Lookup_Shifted(k) ==
    mapping[((CHOOSE i \in 1..Len(mapping) : mapping[i][1] = k) % Len(mapping)) + 1][2]

\* mapping[k]
Lookup(k) == mapping[CHOOSE i \in 1..Len(mapping) : mapping[i][1] = k][2]

Variants == {"v1", "v2", "v3"}

-----------------------------------------------------------------------------
(* The filesystem *)

\* names that are neither keys nor destinations: one that contains a key, one that does not
Unrelated == {"goyangi.jpg.bak", "readme.txt"}

\* the entries whose files may be present initially: the cat entry of the spec's scenario and those after it
CandEntries ==
    LET cat == CHOOSE i \in 1..Len(mapping) : mapping[i][1] = "goyangi.jpg"
    IN {i \in 1..Len(mapping) : cat <= i /\ i < cat + NCand}

\* names a file of the initial directory may have
Candidates ==
    {mapping[i][1] : i \in CandEntries} \cup {mapping[i][2] : i \in CandEntries} \cup Unrelated

\* initial directories: every file holds its own data, named after the file's initial name
InitialDirs ==
    {[n \in S |-> n] : S \in {T \in SUBSET Candidates : Cardinality(T) <= MaxFiles}}

\* os.path.exists(os.path.join(base_dir, name))
Exists(d, name) == name \in DOMAIN d

\* whether os.rename(old, new) raises
RenameFails(d, old) == old \in failing \/ ~Exists(d, old)

\* a copy instead of a move: the old name stays
Rename_KeepsOld(d, old, new) ==
    [n \in DOMAIN d \cup {new} |-> IF n = new THEN d[old] ELSE d[n]]

\* the directory after a successful os.rename(old, new): new replaces any file of that name
Rename(d, old, new) ==
    [n \in (DOMAIN d \ {old}) \cup {new} |-> IF n = new THEN d[old] ELSE d[n]]

\* k in filename, for strings
Contains(k, s) ==
    \E i \in 1..(Len(s) + 1) : i + Len(k) - 1 <= Len(s) /\ SubSeq(s, i, i + Len(k) - 1) = k

\* all orders os.listdir may return the names in
RECURSIVE Orders(_)
Orders(S) ==
    IF S = {} THEN {<<>>}
    ELSE UNION {{<<n>> \o rest : rest \in Orders(S \ {n})} : n \in S}

-----------------------------------------------------------------------------
(* Output lines *)

RenamedLine(old, new) == <<"Renamed", old, new>>
ErrorLine(old)        == <<"Error renaming", old>>
NotFoundLine_NewName(old) == <<"File not found", Lookup(old)>>
NotFoundLine(old)     == <<"File not found", old>>
SkippedLine(name)     == <<"Skipped", name>>
FilesLine(fs)         == <<"Files">> \o fs
GlobalErrorLine       == <<"Global error">>
DoneLine              == <<"Done">>

-----------------------------------------------------------------------------
(* Start of a program *)

StartPc(v) == CASE v = "v1" -> "loop" [] v = "v2" -> "listdir" [] v = "v3" -> "open"

Init ==
    /\ variant \in Variants
    /\ dirState \in {"ok", "missing", "unreadable"}
    /\ dir0 \in InitialDirs
    /\ dirState = "missing" => dir0 = << >>
    /\ failing \in SUBSET (Keys \cap DOMAIN dir0)
    /\ dir = dir0
    /\ pc = StartPc(variant)
    /\ files = << >>
    /\ idx = 1
    /\ out = << >>
    /\ log = << >>
    /\ calls = << >>
    /\ exitCode = -1
    /\ run = 1
    /\ prev = << >>

-----------------------------------------------------------------------------
(* rename_images.py *)

\* one iteration of: for old_name, new_name in mapping.items()
V1_Visit ==
    /\ variant = "v1" /\ pc = "loop" /\ idx <= Len(mapping)
    /\ LET old == mapping[idx][1]
           new == mapping[idx][2]
       IN IF Exists(dir, old)
          THEN /\ calls' = Append(calls, <<old, new>>)
               /\ IF RenameFails(dir, old)
                  THEN /\ out' = Append(out, ErrorLine(old))
                       /\ dir' = dir
                  ELSE /\ dir' = Rename(dir, old, new)
                       /\ out' = Append(out, RenamedLine(old, new))
          ELSE /\ out' = Append(out, NotFoundLine(old))
               /\ UNCHANGED <<dir, calls>>
    /\ idx' = idx + 1
    /\ UNCHANGED <<variant, dirState, failing, dir0, pc, files, log, exitCode, run, prev>>

\* the loop is exhausted and the script ends
V1_Exit ==
    /\ variant = "v1" /\ pc = "loop" /\ idx > Len(mapping)
    /\ pc' = "exited"
    /\ exitCode' = 0
    /\ UNCHANGED <<variant, dirState, failing, dir0, dir, files, idx, out, log, calls, run, prev>>

-----------------------------------------------------------------------------
(* rename_images_v2.py *)

\* files = os.listdir(base_dir), outside any try: a failure ends the process with a traceback
V2_List ==
    /\ variant = "v2" /\ pc = "listdir"
    /\ IF dirState = "ok"
       THEN /\ files' \in Orders(DOMAIN dir)
            /\ out' = Append(out, FilesLine(files'))
            /\ pc' = "loop"
            /\ UNCHANGED exitCode
       ELSE /\ pc' = "exited"
            /\ exitCode' = 1
            /\ UNCHANGED <<files, out>>
    /\ UNCHANGED <<variant, dirState, failing, dir0, dir, idx, log, calls, run, prev>>

\* a loose match that renames the file to the matched key's destination
LooseMatch_Renames(d, filename) ==
    IF \E i \in 1..Len(mapping) : Contains(mapping[i][1], filename)
    THEN Rename(d, filename,
                mapping[CHOOSE i \in 1..Len(mapping) : Contains(mapping[i][1], filename)][2])
    ELSE d

\* the else branch of the loop: for k, v in mapping.items(): if k in filename: pass
LooseMatch(d, filename) ==
    IF \E i \in 1..Len(mapping) : Contains(mapping[i][1], filename) THEN d ELSE d

\* one iteration of: for filename in files
V2_Visit ==
    /\ variant = "v2" /\ pc = "loop" /\ idx <= Len(files)
    /\ LET filename == files[idx]
       IN IF filename \in Keys
          THEN /\ calls' = Append(calls, <<filename, Lookup(filename)>>)
               /\ IF RenameFails(dir, filename)
                  THEN /\ out' = Append(out, ErrorLine(filename))
                       /\ dir' = dir
                  ELSE /\ dir' = Rename(dir, filename, Lookup(filename))
                       /\ out' = Append(out, RenamedLine(filename, Lookup(filename)))
          ELSE /\ dir' = LooseMatch(dir, filename)
               /\ UNCHANGED <<out, calls>>
    /\ idx' = idx + 1
    /\ UNCHANGED <<variant, dirState, failing, dir0, pc, files, log, exitCode, run, prev>>

\* the loop is exhausted and the script ends
V2_Exit ==
    /\ variant = "v2" /\ pc = "loop" /\ idx > Len(files)
    /\ pc' = "exited"
    /\ exitCode' = 0
    /\ UNCHANGED <<variant, dirState, failing, dir0, dir, files, idx, out, log, calls, run, prev>>

-----------------------------------------------------------------------------
(* rename_images_v3.py *)

\* with open(log_file, "w"): the log is truncated
V3_Open ==
    /\ variant = "v3" /\ pc = "open"
    /\ log' = << >>
    /\ pc' = "listdir"
    /\ UNCHANGED <<variant, dirState, failing, dir0, dir, files, idx, out, calls, exitCode, run, prev>>

\* a listing outside the try, as in v2: its failure ends the process
V3_List_Uncaught ==
    /\ variant = "v3" /\ pc = "listdir"
    /\ IF dirState = "ok"
       THEN /\ files' \in Orders(DOMAIN dir)
            /\ log' = Append(log, FilesLine(files'))
            /\ pc' = "loop"
            /\ UNCHANGED exitCode
       ELSE /\ pc' = "exited"
            /\ exitCode' = 1
            /\ UNCHANGED <<files, log>>
    /\ UNCHANGED <<variant, dirState, failing, dir0, dir, idx, out, calls, run, prev>>

\* files = os.listdir(base_dir) inside the outer try; its failure goes to the outer except
V3_List ==
    /\ variant = "v3" /\ pc = "listdir"
    /\ IF dirState = "ok"
       THEN /\ files' \in Orders(DOMAIN dir)
            /\ log' = Append(log, FilesLine(files'))
            /\ pc' = "loop"
       ELSE /\ log' = Append(log, GlobalErrorLine)
            /\ pc' = "print_done"
            /\ UNCHANGED files
    /\ UNCHANGED <<variant, dirState, failing, dir0, dir, idx, out, calls, exitCode, run, prev>>

\* a rename failure that reaches the outer handler and leaves the loop
V3_AfterRenameError_Abort == "print_done"

\* where a failed os.rename of the loop is handled: the inner except, then the next iteration
V3_AfterRenameError == "loop"

\* one iteration of: for filename in files
V3_Visit ==
    /\ variant = "v3" /\ pc = "loop" /\ idx <= Len(files)
    /\ LET filename == files[idx]
       IN IF filename \in Keys
          THEN /\ calls' = Append(calls, <<filename, Lookup(filename)>>)
               /\ IF RenameFails(dir, filename)
                  THEN /\ log' = Append(log, ErrorLine(filename))
                       /\ dir' = dir
                       /\ pc' = V3_AfterRenameError
                  ELSE /\ dir' = Rename(dir, filename, Lookup(filename))
                       /\ log' = Append(log, RenamedLine(filename, Lookup(filename)))
                       /\ pc' = pc
          ELSE /\ log' = Append(log, SkippedLine(filename))
               /\ UNCHANGED <<dir, calls, pc>>
    /\ idx' = idx + 1
    /\ UNCHANGED <<variant, dirState, failing, dir0, files, out, exitCode, run, prev>>

\* the loop is exhausted: the with block closes the log
V3_LoopEnd ==
    /\ variant = "v3" /\ pc = "loop" /\ idx > Len(files)
    /\ pc' = "print_done"
    /\ UNCHANGED <<variant, dirState, failing, dir0, dir, files, idx, out, log, calls, exitCode, run, prev>>

\* print("Done") and the script ends
V3_Done ==
    /\ variant = "v3" /\ pc = "print_done"
    /\ out' = Append(out, DoneLine)
    /\ pc' = "exited"
    /\ exitCode' = 0
    /\ UNCHANGED <<variant, dirState, failing, dir0, dir, files, idx, log, calls, run, prev>>

-----------------------------------------------------------------------------
(* One pass of one variant *)

Next ==
    \/ V1_Visit \/ V1_Exit
    \/ V2_List \/ V2_Visit \/ V2_Exit
    \/ V3_Open \/ V3_List \/ V3_Visit \/ V3_LoopEnd \/ V3_Done

Spec == Init /\ [][Next]_vars

-----------------------------------------------------------------------------
(* What a pass is observed to do *)

\* the channel the outcome lines go to: the log file in v3, standard output otherwise
Lines == IF variant = "v3" THEN log ELSE out

Range(q) == {q[i] : i \in 1..Len(q)}

IsRenamed(l)  == l[1] = "Renamed"
IsError(l)    == l[1] = "Error renaming"
IsNotFound(l) == l[1] = "File not found"
IsSkipped(l)  == l[1] = "Skipped"
IsOutcome(l)  == IsRenamed(l) \/ IsError(l) \/ IsNotFound(l) \/ IsSkipped(l)

\* how many lines of q are in the set of lines L
Count(q, L) == Cardinality({i \in 1..Len(q) : q[i] \in L})

Renamed(q)  == {l \in Range(q) : IsRenamed(l)}
Errors(q)   == {l \in Range(q) : IsError(l)}
NotFound(q) == {l \in Range(q) : IsNotFound(l)}
Skipped(q)  == {l \in Range(q) : IsSkipped(l)}
Outcomes(q) == {l \in Range(q) : IsOutcome(l)}

\* the outcome lines of q that name the file old
OutcomeOf(q, old) == {l \in Range(q) : IsOutcome(l) /\ l[2] = old}

\* the file of directory d under name n: <<TRUE, contents>>, or <<FALSE>> when there is none
FileAt(d, n) == IF n \in DOMAIN d THEN <<TRUE, d[n]>> ELSE <<FALSE>>

Exited == pc = "exited"

-----------------------------------------------------------------------------
(* Harnesses: a second pass after the first *)

\* everything a finished pass leaves behind
Summary ==
    [variant |-> variant, dirState |-> dirState, failing |-> failing, dir0 |-> dir0,
     dir |-> dir, out |-> out, log |-> log, lines |-> Lines, calls |-> calls,
     exitCode |-> exitCode]

\* the program v is started on directory d
StartPass(v, d) ==
    /\ variant' = v
    /\ dir0' = d
    /\ dir' = d
    /\ pc' = StartPc(v)
    /\ files' = << >>
    /\ idx' = 1
    /\ out' = << >>
    /\ calls' = << >>
    /\ exitCode' = -1
    /\ run' = 2

\* the same program is run again on the directory the first pass left;
\* rename_log.txt stays on disk until v3 reopens it
Rerun ==
    /\ Exited /\ run = 1
    /\ prev' = Summary
    /\ StartPass(variant, dir)
    /\ UNCHANGED <<dirState, failing, log>>

SpecRerun == Init /\ [][Next \/ Rerun]_vars

\* another variant is run on the directory the first pass started from, in the same environment
SwitchVariant ==
    /\ Exited /\ run = 1
    /\ prev' = Summary
    /\ \E v \in Variants \ {variant} : StartPass(v, dir0)
    /\ log' = << >>
    /\ UNCHANGED <<dirState, failing>>

SpecEquiv == Init /\ [][Next \/ SwitchVariant]_vars

\* what a finished pass did for mapping entry i alone
EntrySummary(i) ==
    [entry |-> i,
     srcExisted |-> mapping[i][1] \in DOMAIN dir0,
     renameFailed |-> mapping[i][1] \in failing,
     dest0 |-> FileAt(dir0, mapping[i][2]),
     listed |-> dirState = "ok",
     exitCode |-> exitCode,
     outcome |-> OutcomeOf(Lines, mapping[i][1]),
     destFinal |-> FileAt(dir, mapping[i][2])]

\* the harness keeps what the finished pass did for one chosen entry and clears the rest
Track ==
    /\ Exited /\ run = 1
    /\ \E i \in 1..Len(mapping) : prev' = EntrySummary(i)
    /\ pc' = "tracked"
    /\ dirState' = "ok"
    /\ failing' = {}
    /\ dir0' = << >>
    /\ dir' = << >>
    /\ files' = << >>
    /\ idx' = 1
    /\ out' = << >>
    /\ log' = << >>
    /\ calls' = << >>
    /\ exitCode' = -1
    /\ UNCHANGED <<variant, run>>

\* the same program is run in another environment (directory content, failing renames,
\* directory state) that agrees with the first on whether the source of the tracked entry
\* exists and whether its rename fails
Perturb ==
    /\ pc = "tracked"
    /\ \E d \in InitialDirs, st \in {"ok", "missing", "unreadable"} :
        /\ st = "missing" => d = << >>
        /\ (mapping[prev.entry][1] \in DOMAIN d) = prev.srcExisted
        /\ dirState' = st
        /\ \E f \in SUBSET (Keys \cap DOMAIN d) :
            /\ (mapping[prev.entry][1] \in f) = prev.renameFailed
            /\ failing' = f
        /\ StartPass(variant, d)
    /\ UNCHANGED <<log, prev>>

SpecPair == Init /\ [][Next \/ Track \/ Perturb]_vars

TypeOK ==
    /\ variant \in Variants
    /\ pc \in {"open", "listdir", "loop", "print_done", "exited", "tracked"}
    /\ exitCode \in {-1, 0, 1}
    /\ DOMAIN dir \subseteq Candidates \cup Dests

-----------------------------------------------------------------------------
(* Claims *)

Key(i)  == mapping[i][1]
Dest(i) == mapping[i][2]
Entries == 1..Len(mapping)

\* os.listdir(base_dir) succeeds when it is called
ListingWorks == dirState = "ok"

\* C1 as stated: once the pass has finished, every mapping entry whose source
\* existed before the pass has no file under the old name and a file under the
\* new name holding the contents the source had before the pass.  Stated for
\* the passes that end normally.
C1_Original ==
    (Exited /\ exitCode = 0) =>
        \A i \in Entries :
            Key(i) \in DOMAIN dir0 =>
                /\ Key(i) \notin DOMAIN dir
                /\ FileAt(dir, Dest(i)) = <<TRUE, dir0[Key(i)]>>

\* C1 amended: the same, for the entries whose os.rename call does not fail,
\* and in the directory-listing variants provided os.listdir succeeds.
C1_RenamedWhenCallSucceeds ==
    Exited =>
        \A i \in Entries :
            ( /\ Key(i) \in DOMAIN dir0
              /\ Key(i) \notin failing
              /\ variant # "v1" => ListingWorks ) =>
                /\ Key(i) \notin DOMAIN dir
                /\ FileAt(dir, Dest(i)) = <<TRUE, dir0[Key(i)]>>
                /\ <<Key(i), Dest(i)>> \in Range(calls)

\* a finished pass that renamed a source over an existing destination while another rename failed
C1_Witness ==
    /\ Exited
    /\ \E i \in Entries :
        /\ Key(i) \in DOMAIN dir0 /\ Key(i) \notin failing
        /\ Dest(i) \in DOMAIN dir0
        /\ FileAt(dir, Dest(i)) = <<TRUE, dir0[Key(i)]>>
        /\ Key(i) \notin DOMAIN dir
    /\ failing # {}

\* C2 as stated: for every mapping entry whose source does not exist, the pass
\* changes nothing on behalf of the entry and emits a "not found" or "skipped"
\* line naming it, in every variant.  Stated for the passes that end normally.
C2_Original ==
    (Exited /\ exitCode = 0) =>
        \A i \in Entries :
            Key(i) \notin DOMAIN dir0 =>
                /\ <<Key(i), Dest(i)>> \notin Range(calls)
                /\ FileAt(dir, Dest(i)) = FileAt(dir0, Dest(i))
                /\ \E l \in OutcomeOf(Lines, Key(i)) : IsNotFound(l) \/ IsSkipped(l)

\* C2 amended: for every mapping entry whose source does not exist, no rename
\* is called for it and its destination is left as it was; the mapping-iteration
\* variant prints exactly one "File not found" line naming it, and the
\* directory-listing variants emit no line at all about it.
C2_MissingSourceIsNoOp ==
    Exited =>
        \A i \in Entries :
            Key(i) \notin DOMAIN dir0 =>
                /\ <<Key(i), Dest(i)>> \notin Range(calls)
                /\ Key(i) \notin DOMAIN dir
                /\ FileAt(dir, Dest(i)) = FileAt(dir0, Dest(i))
                /\ variant = "v1" =>
                    /\ OutcomeOf(out, Key(i)) = {NotFoundLine(Key(i))}
                    /\ Count(out, {NotFoundLine(Key(i))}) = 1
                /\ variant # "v1" => OutcomeOf(Lines, Key(i)) = {}

\* a finished mapping-iteration pass over a non-empty directory that reported a missing candidate source
C2_Witness ==
    /\ Exited /\ variant = "v1"
    /\ dir0 # << >>
    /\ \E i \in CandEntries :
        /\ Key(i) \notin DOMAIN dir0
        /\ Dest(i) \in DOMAIN dir0
        /\ NotFoundLine(Key(i)) \in Range(out)

\* C3: when a rename call fails, an "Error renaming" line naming that file is
\* emitted, the file stays where it was, and the pass still handles every other
\* entry: each source that existed and whose rename does not fail is renamed,
\* and the program ends normally.
C3_FailureDoesNotAbort ==
    (Exited /\ \E c \in Range(calls) : c[1] \in failing) =>
        /\ exitCode = 0
        /\ GlobalErrorLine \notin Range(log)
        /\ \A i \in Entries :
            Key(i) \in DOMAIN dir0 =>
                IF Key(i) \in failing
                THEN /\ OutcomeOf(Lines, Key(i)) = {ErrorLine(Key(i))}
                     /\ FileAt(dir, Key(i)) = FileAt(dir0, Key(i))
                     /\ FileAt(dir, Dest(i)) = FileAt(dir0, Dest(i))
                ELSE /\ OutcomeOf(Lines, Key(i)) = {RenamedLine(Key(i), Dest(i))}
                     /\ Key(i) \notin DOMAIN dir
                     /\ FileAt(dir, Dest(i)) = <<TRUE, dir0[Key(i)]>>

\* a finished pass in which a rename failed and a later rename call succeeded
C3_Witness ==
    /\ Exited
    /\ \E p, q \in 1..Len(calls) :
        /\ p < q
        /\ calls[p][1] \in failing
        /\ calls[q][1] \notin failing
        /\ RenamedLine(calls[q][1], calls[q][2]) \in Range(Lines)
        /\ calls[q][2] \in DOMAIN dir

\* no rename call of the first pass failed
FirstPassSucceeded == \A c \in Range(prev.calls) : c[1] \notin prev.failing

\* C4: after a first pass in which every rename succeeded, a second pass calls
\* no rename, emits no "Renamed" and no "Error renaming" line (its outcome
\* lines are "not found" or "skipped" ones), and leaves the directory as the
\* first pass left it.
C4_SecondPassIsNoOp ==
    (run = 2 /\ FirstPassSucceeded) =>
        /\ calls = << >>
        /\ dir = prev.dir
        /\ Exited =>
            /\ \A l \in Range(Lines) : IsOutcome(l) => (IsNotFound(l) \/ IsSkipped(l))
            /\ \A i \in Entries :
                <<Key(i), Dest(i)>> \in Range(prev.calls) =>
                    FileAt(dir, Dest(i)) = <<TRUE, prev.dir0[Key(i)]>>

\* a finished second pass after a first pass that renamed two files
C4_Witness ==
    /\ run = 2 /\ Exited /\ FirstPassSucceeded
    /\ Len(prev.calls) >= 2
    /\ \E l \in Range(Lines) : IsNotFound(l) \/ IsSkipped(l)

\* C5 as stated: the program always ends with exit code 0.
C5_AlwaysExitsZero == Exited => exitCode = 0

\* C6 as stated: when the directory holds exactly one file and it is a mapping
\* source, the finished pass leaves exactly the destination file and has
\* emitted one "Renamed" line and nine "not found"/"skipped" lines, ten
\* outcome lines in all.  Stated for the passes that end normally.
C6_Original ==
    (Exited /\ exitCode = 0) =>
        \A i \in Entries :
            DOMAIN dir0 = {Key(i)} =>
                /\ DOMAIN dir = {Dest(i)}
                /\ Count(Lines, Renamed(Lines)) = 1
                /\ Count(Lines, NotFound(Lines) \cup Skipped(Lines)) = 9
                /\ Count(Lines, Outcomes(Lines)) = 10

\* C6 amended: when the directory holds exactly one file, it is a mapping
\* source, its rename does not fail and (directory-listing variants) the
\* listing succeeds, the finished pass leaves exactly the destination file with
\* the source's contents and one "Renamed" line; the mapping-iteration variant
\* adds nine "File not found" lines (ten outcome lines), the directory-listing
\* variants add no outcome line.
C6_SingleSource ==
    Exited =>
        \A i \in Entries :
            ( /\ DOMAIN dir0 = {Key(i)}
              /\ Key(i) \notin failing
              /\ variant # "v1" => ListingWorks ) =>
                /\ dir = [n \in {Dest(i)} |-> dir0[Key(i)]]
                /\ Count(Lines, Renamed(Lines)) = 1
                /\ RenamedLine(Key(i), Dest(i)) \in Range(Lines)
                /\ Count(Lines, Errors(Lines)) = 0
                /\ IF variant = "v1"
                   THEN /\ Count(Lines, NotFound(Lines)) = 9
                        /\ Count(Lines, Outcomes(Lines)) = 10
                   ELSE /\ Count(Lines, NotFound(Lines) \cup Skipped(Lines)) = 0
                        /\ Count(Lines, Outcomes(Lines)) = 1

\* the spec's scenario, finished by the mapping-iteration variant: only the cat source at the start
C6_Witness ==
    /\ Exited /\ variant = "v1"
    /\ DOMAIN dir0 = {"goyangi.jpg"}
    /\ DOMAIN dir = {"cat-mascot.jpg"}
    /\ Len(out) = 10

\* C7 as stated: the outcome lines for an entry and the final presence and
\* contents of its destination file are the same in any two passes of a
\* variant that agree on whether the entry's source existed initially and
\* whether its rename call failed.  Stated for the passes that end normally.
C7_Original ==
    (run = 2 /\ Exited /\ exitCode = 0 /\ prev.exitCode = 0) =>
        /\ OutcomeOf(Lines, Key(prev.entry)) = prev.outcome
        /\ FileAt(dir, Dest(prev.entry)) = prev.destFinal

\* C7 amended: they are the same in any two passes of a variant that agree on
\* whether the entry's source existed initially, whether its rename call
\* failed, on the initial presence and contents of the entry's own destination
\* file and, in the directory-listing variants, on whether the listing
\* succeeded; whatever the other files, the other renames' failures and the
\* order of the listing.
C7_EntriesIndependent ==
    ( /\ run = 2 /\ Exited
      /\ FileAt(dir0, Dest(prev.entry)) = prev.dest0
      /\ variant # "v1" => ListingWorks = prev.listed ) =>
        /\ OutcomeOf(Lines, Key(prev.entry)) = prev.outcome
        /\ FileAt(dir, Dest(prev.entry)) = prev.destFinal

\* two finished passes that renamed the same entry, the second with another source present whose rename failed
C7_Witness ==
    /\ run = 2 /\ Exited
    /\ prev.srcExisted /\ ~prev.renameFailed
    /\ prev.outcome = {RenamedLine(Key(prev.entry), Dest(prev.entry))}
    /\ OutcomeOf(Lines, Key(prev.entry)) = prev.outcome
    /\ FileAt(dir, Dest(prev.entry)) = prev.destFinal
    /\ failing # {}
    /\ Cardinality(DOMAIN dir0) = MaxFiles

\* C8 as stated: run on the same initial directory with the same failing
\* renames, two different variants make the same set of rename calls and end
\* with the same directory content.  Stated for the passes that end normally.
C8_Original ==
    (run = 2 /\ Exited /\ exitCode = 0 /\ prev.exitCode = 0) =>
        /\ Range(calls) = Range(prev.calls)
        /\ dir = prev.dir

\* C8 amended: the same, provided listing the directory does not fail while its
\* files stay reachable by path (the listing succeeds, or there is no directory).
C8_EquivalentWhenListable ==
    (run = 2 /\ Exited /\ dirState # "unreadable") =>
        /\ Range(calls) = Range(prev.calls)
        /\ dir = prev.dir

\* the mapping-iteration variant and a listing variant both finished on a directory
\* with a successful rename, a failing rename and a file that loosely matches a key
C8_Witness ==
    /\ run = 2 /\ Exited /\ dirState = "ok"
    /\ "v1" \in {variant, prev.variant}
    /\ failing # {}
    /\ "goyangi.jpg.bak" \in DOMAIN dir0
    /\ \E c \in Range(calls) : c[1] \notin failing
    /\ dir # dir0

\* C9: in the logging variant a failed listing is logged as "Global error",
\* no rename is attempted, the directory is unchanged and "Done" is still
\* printed with a normal exit; when the listing succeeds, no rename failure
\* produces a "Global error" line and every listed file is visited.
C9_OuterHandler ==
    variant = "v3" =>
        /\ (Exited /\ ~ListingWorks) =>
            /\ log = <<GlobalErrorLine>>
            /\ calls = << >>
            /\ dir = dir0
            /\ out = <<DoneLine>>
            /\ exitCode = 0
        /\ ListingWorks =>
            /\ GlobalErrorLine \notin Range(log)
            /\ Exited =>
                /\ idx = Len(files) + 1
                /\ Count(log, Outcomes(log)) = Len(files)
                /\ out = <<DoneLine>>
                /\ exitCode = 0

\* the logging variant finished after a failed listing of a directory that held a renamable file
C9_Witness ==
    /\ variant = "v3" /\ Exited /\ dirState = "unreadable"
    /\ \E i \in Entries : Key(i) \in DOMAIN dir0 /\ Key(i) \notin failing
    /\ GlobalErrorLine \in Range(log)

\* C10: every rename call is made with a pair of the mapping, each pair at
\* most once per pass; a file whose name is neither a key nor a destination
\* keeps its name and contents; the number of files never grows.
C10_Frame ==
    /\ \A p \in 1..Len(calls) :
        /\ \E i \in Entries : calls[p] = <<Key(i), Dest(i)>>
        /\ \A q \in 1..Len(calls) : calls[p] = calls[q] => p = q
    /\ \A n \in DOMAIN dir0 \ (Keys \cup Dests) : FileAt(dir, n) = FileAt(dir0, n)
    /\ \A n \in DOMAIN dir \ (Keys \cup Dests) : n \in DOMAIN dir0
    /\ Cardinality(DOMAIN dir) <= Cardinality(DOMAIN dir0)

\* the second variant finished on a directory holding a file that contains a key, after a rename
C10_Witness ==
    /\ variant = "v2" /\ Exited
    /\ "goyangi.jpg.bak" \in DOMAIN dir
    /\ "goyangi.jpg" \in DOMAIN dir0
    /\ \E c \in Range(calls) : c[1] \notin failing

====
